---- MODULE Spec2Model ----
(***************************************************************************)
(* Model of the chat server src/chat-app/server.js.                        *)
(*                                                                         *)
(* The server is one Node.js process: every socket.io event handler runs   *)
(* to its first `await` without interruption, and every `await` in the     *)
(* handlers waits for one command sent to the single ioredis client        *)
(* `valkeyClient`.  That client pipelines its commands over one            *)
(* connection, so commands are executed, and their replies resume the      *)
(* awaiting handlers, in the order in which they were sent.  The model     *)
(* therefore keeps `pending`, the sequence of handler invocations that     *)
(* wait for a reply, oldest command first.  One step of a handler is:      *)
(* the command at the head of `pending` takes effect in the store (or      *)
(* fails), and the handler runs on to its next command or to its end.      *)
(* The arguments of a command are evaluated when it is sent, so an         *)
(* invocation carries them (`u`, `msg`) until the command takes effect.    *)
(***************************************************************************)
EXTENDS Integers, Sequences, FiniteSets, TLC

\* ------------------------------------------------------------------ bounds
NumSockets == 3     \* connections ever accepted (a socket id is never reused)
MaxPending == 2     \* handler invocations awaiting a store reply at a time
MaxMsgs == 2        \* send requests (global or room) accepted in a run
MaxOffset == 3      \* largest data.offset of load_more_messages
MaxLimit == 2       \* largest data.limit of load_more_messages, ClientLimit apart
MaxInbox == 2       \* events on the way to one client at a time

\* -------------------------------------------------------- program constants
MinGroupIdLen == 2
MaxGroupIdLen == 50
MinUsernameLen == 2
MaxUsernameLen == 20
ClientLimit == 50   \* the limit the client's loadMoreMessages asks for

\* ------------------------------------------------------------------ inputs
Sockets == 1..NumSockets

\* Strings the handlers trim and match are sequences of characters.
IdChars ==
    {"a","b","c","d","e","f","g","h","i","j","k","l","m",
     "n","o","p","q","r","s","t","u","v","w","x","y","z",
     "A","B","C","D","E","F","G","H","I","J","K","L","M",
     "N","O","P","Q","R","S","T","U","V","W","X","Y","Z",
     "0","1","2","3","4","5","6","7","8","9","_","-"}
Space == " "

NoName == <<"undefined">>           \* socket.username before any claim
Al == <<"a", "l">>
Bo == <<"b", "o">>
EmptyName == <<>>
UsernameInputs == {Al, Bo, EmptyName}  \* data.username of select_username

R1 == <<"r", "1">>
LongId == [i \in 1..(MaxGroupIdLen + 1) |-> "r"]
MalformedIds == { <<"r">>, <<Space>>, LongId }   \* too short, blank, too long
GroupIdInputs == { R1, <<Space, "r", "1">>, <<"r", "!">> } \cup MalformedIds
TextInputs == { <<"h", "i">>, <<Space>> }
RequestEvents ==
    {"select_username", "message", "load_more_messages", "clear_history",
     "create_group", "join_group", "leave_group", "group_message",
     "clear_group_history", "delete_group", "request_global_history"}
OffsetInputs == 0..MaxOffset                  \* data.offset of load_more_messages
LimitInputs == (1..MaxLimit) \cup {ClientLimit}  \* data.limit of load_more_messages
NoGroup == <<>>
NoText == <<>>

RECURSIVE TrimLeft(_)
TrimLeft(s) ==
    IF s # <<>> /\ Head(s) = Space THEN TrimLeft(Tail(s)) ELSE s

RECURSIVE TrimRight(_)
TrimRight(s) ==
    IF s # <<>> /\ s[Len(s)] = Space
    THEN TrimRight(SubSeq(s, 1, Len(s) - 1))
    ELSE s

Trim(s) == TrimRight(TrimLeft(s))

\* The mutant of isValidGroupId: every id passes.
isValidGroupIdAny(groupId) == TRUE

isValidGroupId(groupId) ==
    LET trimmed == Trim(groupId) IN
      /\ groupId # <<>>
      /\ trimmed # <<>>
      /\ Len(trimmed) >= MinGroupIdLen
      /\ Len(trimmed) <= MaxGroupIdLen
      /\ \A i \in 1..Len(trimmed) : trimmed[i] \in IdChars

GroupIds == { Trim(g) : g \in { x \in GroupIdInputs : isValidGroupId(Trim(x)) } }

\* The mutant of Truthy: the username check of the handlers always passes.
TruthyAlways(u) == TRUE

\* JavaScript truthiness of socket.username
Truthy(u) == u # NoName /\ u # EmptyName

\* The client's validateUsername (null, i.e. no error, is TRUE here)
validateUsername(name) ==
    LET trimmed == Trim(name) IN
      /\ trimmed # <<>>
      /\ Len(trimmed) >= MinUsernameLen
      /\ Len(trimmed) <= MaxUsernameLen
      /\ \A i \in 1..Len(trimmed) : trimmed[i] \in IdChars

\* ------------------------------------------------------------------- state
VARIABLES
    conn,             \* socket -> "new" | "loading" | "open" | "closed"
    username,         \* socket -> socket.username
    activeUsernames,  \* the Set activeUsernames
    joined,           \* socket -> socket.io rooms the socket is in
    groups,           \* store: the set `groups`
    meta,             \* store: group:<id>:meta (owner), NoName when absent
    members,          \* store: group:<id>:members
    groupMessages,    \* store: group:<id>:messages, newest first
    chatMessages,     \* store: chat_messages, newest first
    pending,          \* handler invocations awaiting a reply, oldest first
    sent,             \* send requests accepted so far
    emitted,          \* events delivered by the last step
    completed,        \* requests whose handler ended in the last step
    env,              \* what the clients and the store do in this run
    claimed,          \* history: socket -> the usernames accepted for it
    pager,            \* client: socket -> its run of load_more_messages pages
    undelivered,      \* history: requests that arrived with no listener registered
    client,           \* client: socket -> currentGroupId, the displayed list, requests on the way
    inbox             \* socket -> the events on the way to its client, oldest first

store == <<groups, meta, members, groupMessages, chatMessages>>
vars == <<conn, username, activeUsernames, joined, groups, meta, members,
          groupMessages, chatMessages, pending, sent, emitted, completed, env, claimed,
          pager, undelivered, client, inbox>>

NoMsg == [username |-> NoName, message |-> NoText, timestamp |-> 0, groupId |-> NoGroup]

Live(s) == conn[s] \in {"loading", "open"}

\* One delivered event.  `who` is the username the payload carries, `info`
\* the status or the kind of error, `msgs` the messages the payload carries.
Event(to, ev, gid, who, info, msgs) ==
    [to |-> to, ev |-> ev, gid |-> gid, who |-> who, info |-> info, msgs |-> msgs,
     hasMore |-> FALSE, offset |-> 0]

\* socket.emit: delivered if the socket is still connected
SocketEmit(s, ev, gid, who, info, msgs) ==
    IF Live(s) THEN { Event(s, ev, gid, who, info, msgs) } ELSE {}

\* io.emit: every connected socket
IoEmit(ev, gid, who, info, msgs) ==
    { Event(t, ev, gid, who, info, msgs) : t \in { x \in Sockets : Live(x) } }

\* The mutant of BroadcastEmit: the sender gets the event as well.
BroadcastEmitWithSender(s, ev, gid, who, info, msgs) ==
    { Event(t, ev, gid, who, info, msgs) : t \in { x \in Sockets : Live(x) } }

\* socket.broadcast.emit: every connected socket but the sender
BroadcastEmit(s, ev, gid, who, info, msgs) ==
    { Event(t, ev, gid, who, info, msgs) : t \in { x \in Sockets : Live(x) /\ x # s } }

\* The mutant of RoomEmit: the event goes to every connected socket.
RoomEmitToAll(g, ev, who, info, msgs) ==
    { Event(t, ev, g, who, info, msgs) : t \in { x \in Sockets : Live(x) } }

\* io.to(groupId).emit: the connected sockets in the socket.io room
RoomEmit(g, ev, who, info, msgs) ==
    { Event(t, ev, g, who, info, msgs) : t \in { x \in Sockets : Live(x) /\ g \in joined[x] } }

\* A mutant of Lpush: the new entry is put at the other end of the list.
LpushAtTail(list, m) == list \o <<m>>

\* The mutant of Lpush: the new entry replaces the list.
LpushOverwrite(list, m) == <<m>>

\* LPUSH: the new entry goes to the head of the list
Lpush(list, m) == <<m>> \o list

\* The log of a destination: the global one for NoGroup, else the room's.
LogOf(gid, chat, rooms) == IF gid = NoGroup THEN chat ELSE rooms[gid]

\* The mutant of GroupExists: the registry is not consulted.
GroupExistsAlways(g) == TRUE

\* The mutant of Lrange: the read misses the entry at the head of the list.
LrangeTail(list, start, stop) == IF list = <<>> THEN <<>> ELSE Tail(list)

\* LRANGE <key> <start> <stop>: the entries at the 0-based positions start
\* to stop, counted from the head of the list; a negative index counts from
\* the tail (-1 is the last entry) and positions out of range are cut off.
Lrange(list, start, stop) ==
    LET n == Len(list)
        a == IF start < 0 THEN (IF n + start < 0 THEN 0 ELSE n + start) ELSE start
        b == IF stop < 0 THEN n + stop ELSE (IF stop > n - 1 THEN n - 1 ELSE stop)
    IN IF a > b THEN <<>> ELSE SubSeq(list, a + 1, b + 1)

\* The mutant of Del: only the entry at the head of the list is removed.
DelHead(list) == IF list = <<>> THEN <<>> ELSE Tail(list)

\* DEL <key> of a list
Del(list) == <<>>

\* The mutant of Sadd: the member is not added.
SaddNothing(set, x) == set

\* SADD <key> <member>
Sadd(set, x) == set \cup {x}

\* The mutant of Srem: the member is not removed.
SremNothing(set, x) == set

\* SREM <key> <member>
Srem(set, x) == set \ {x}

\* SISMEMBER groups <groupId>
GroupExists(g) == g \in groups

\* The mutant of KickAll: no socket is taken out of the room.
KickNone(g) == joined

\* The loop at the end of handleDeleteGroup: every socket in the socket.io
\* room leaves it.
KickAll(g) == [x \in Sockets |-> IF Live(x) THEN joined[x] \ {g} ELSE joined[x]]

\* The mutant of ErrorEmit: the error goes to every connected socket.
ErrorEmitToAll(s, info) == IoEmit("error", NoGroup, NoName, info, <<>>)

ErrorEmit(s, info) == SocketEmit(s, "error", NoGroup, NoName, info, <<>>)

Task(s, op, pc, gid, u, msg) ==
    [sock |-> s, op |-> op, pc |-> pc, gid |-> gid, u |-> u, msg |-> msg,
     res |-> <<>>, outs |-> 0, offset |-> 0, limit |-> 0]

\* The number of events of `evs` that reach socket s
Outs(s, evs) == Cardinality({ e \in evs : e.to = s })

Done(s, op, n) == { [sock |-> s, op |-> op, outs |-> n] }

\* The client's paging state before any page: loadedMessageCount = 0 and
\* hasMoreMessages = true, nothing shown.  `limit` is the limit of the run
\* (0: no run), `shown` the pages received so far, one after the other, and
\* The page's script at load: no current group, nothing displayed.
NoClient == [currentGroupId |-> NoGroup, display |-> <<>>, outbox |-> <<>>]

\* `first` the log as it was when the first page was read.
NoPages == [loadedMessageCount |-> 0, hasMoreMessages |-> TRUE, limit |-> 0,
            shown |-> <<>>, first |-> <<>>]

\* The runs checked.  An environment says what the clients and the store do
\* in a run; within it every interleaving is explored.
\*   ops    the requests the clients send
\*   conns  how many clients connect
\*   par    how many handler invocations may await the store at a time
\*   flags  "fail": a store command may fail; "reclaim": a client may send
\*          select_username again after one was accepted; "bad": clients
\*          also send requests without a username, with an invalid group id
\*          or with an empty text; "badid": clients also send group ids
\*          that are too short, blank or too long; "early": clients also
\*          send requests as soon as they are connected; "client": the
\*          clients run the page's script, which keeps a current group and
\*          a displayed list from the events it receives, and events and
\*          requests take time to travel; "brief": the clients send one
\*          message fewer than MaxMsgs
Environment(ops, conns, par, flags) ==
    [ops |-> ops, conns |-> conns, par |-> par, flags |-> flags]

Environments ==
    { Environment({"select_username", "disconnect"}, NumSockets, 1, {"reclaim", "bad"}),
      Environment({"select_username", "disconnect", "message", "clear_history",
                   "request_global_history"}, NumSockets - 1, MaxPending, {"fail"}),
      Environment({"select_username", "create_group", "join_group",
                   "group_message", "leave_group"}, NumSockets - 1, MaxPending, {"brief"}),
      Environment({"select_username", "create_group", "join_group",
                   "delete_group"}, NumSockets - 1, MaxPending, {}),
      Environment({"select_username", "create_group", "join_group",
                   "group_message", "delete_group"}, NumSockets - 1, 1, {"brief"}),
      Environment({"select_username", "create_group", "group_message",
                   "clear_group_history", "delete_group"}, NumSockets - 1, 1, {"fail", "brief"}),
      Environment({"select_username", "create_group", "group_message",
                   "clear_group_history", "delete_group"}, NumSockets - 2, MaxPending,
                  {"fail", "brief"}),
      Environment({"select_username", "create_group", "join_group",
                   "group_message", "leave_group", "clear_group_history",
                   "delete_group"}, NumSockets - 1, 1, {"bad", "brief"}),
      Environment({"select_username", "message", "clear_history"},
                  NumSockets - 1, 1, {"bad"}),
      Environment({"select_username", "create_group", "join_group",
                   "delete_group"}, NumSockets - 1, 1, {"fail"}),
      Environment({"select_username", "create_group", "group_message",
                   "leave_group", "clear_group_history"}, NumSockets - 2, MaxPending, {}),
      Environment({"select_username", "message", "clear_history",
                   "load_more_messages"}, NumSockets - 2, MaxPending, {"fail"}),
      Environment({"select_username", "disconnect", "create_group", "join_group",
                   "group_message"}, NumSockets - 1, 1, {}),
      Environment({"select_username", "create_group", "join_group", "group_message",
                   "leave_group", "clear_group_history", "delete_group"},
                  NumSockets - 2, 1, {"badid"}),
      Environment({"select_username", "message"}, NumSockets - 1, 1, {"early"}),
      Environment({"select_username", "message", "create_group", "join_group",
                   "leave_group", "request_global_history"},
                  NumSockets - 2, 1, {"client"}) }

\* A well-formed request: from a client whose username was accepted, with a
\* valid group id and a text that is not blank.
WellFormed(s, data, text) ==
    \/ "bad" \in env.flags /\ data \notin MalformedIds
    \/ "badid" \in env.flags
    \/ /\ Truthy(username[s])
       /\ isValidGroupId(Trim(data))
       /\ Trim(text) # NoText

Init ==
    /\ conn = [s \in Sockets |-> "new"]
    /\ username = [s \in Sockets |-> NoName]
    /\ activeUsernames = {}
    /\ joined = [s \in Sockets |-> {}]
    /\ groups = {}
    /\ meta = [g \in GroupIds |-> NoName]
    /\ members = [g \in GroupIds |-> {}]
    /\ groupMessages = [g \in GroupIds |-> <<>>]
    /\ chatMessages = <<>>
    /\ pending = <<>>
    /\ sent = 0
    /\ emitted = {}
    /\ completed = {}
    /\ env \in Environments
    /\ claimed = [s \in Sockets |-> {}]
    /\ pager = [s \in Sockets |-> NoPages]
    /\ undelivered = {}
    /\ client = [s \in Sockets |-> NoClient]
    /\ inbox = [s \in Sockets |-> <<>>]

\* The send requests the clients make in this run.
MaxSends == IF "brief" \in env.flags THEN MaxMsgs - 1 ELSE MaxMsgs

CanSend == Len(pending) < env.par
Head1 == Head(pending)
Rest == Tail(pending)

Reverse(seq) == [i \in 1..Len(seq) |-> seq[Len(seq) + 1 - i]]

\* ------------------------------------------------------------ the wire
\* The events of a step travel to their clients: each client's events are
\* queued behind those already on the way to it.  At most MaxInbox events
\* are on the way to one client.
Orders(S) ==
    { q \in [1..Cardinality(S) -> S] :
        \A i, j \in 1..Cardinality(S) : i # j => q[i] # q[j] }

Arriving(s) == { inbox[s] \o q : q \in Orders({ e \in emitted' : e.to = s }) }

Downlink ==
    IF "client" \in env.flags
    THEN /\ inbox' \in { f \in [Sockets -> UNION { Arriving(s) : s \in Sockets }] :
                           \A s \in Sockets : f[s] \in Arriving(s) }
         /\ \A s \in Sockets : Len(inbox'[s]) <= MaxInbox
    ELSE UNCHANGED inbox

\* A request of client s reaches the server.  The requests the script
\* sends by itself (leave_group and request_global_history) arrive in the
\* order sent; a request the user makes arrives behind them.  The message
\* form sends `message` in the lobby and `group_message` to the current
\* group.
Request(op, gid) == [op |-> op, gid |-> gid]

Uplink(s, op, data) ==
    IF "client" \notin env.flags
    THEN UNCHANGED client
    ELSE IF op \in {"leave_group", "request_global_history"}
    THEN /\ client[s].outbox # <<>>
         /\ Head(client[s].outbox) = Request(op, data)
         /\ client' = [client EXCEPT ![s].outbox = Tail(@)]
    ELSE /\ client[s].outbox = <<>>
         /\ op = "message" => client[s].currentGroupId = NoGroup
         /\ op = "group_message" => client[s].currentGroupId = data
         /\ UNCHANGED client

\* ------------------------------------------------- connection and history
\* io.on('connection'): the handler sends the lrange of the initial history
\* load and registers the socket's listeners only after its reply.
Connect(s) ==
    /\ conn[s] = "new"
    /\ s <= env.conns
    /\ \A t \in Sockets : t < s => conn[t] # "new"
    /\ CanSend
    /\ conn' = [conn EXCEPT ![s] = "loading"]
    /\ pending' = Append(pending, Task(s, "history", "initial", NoGroup, NoName, NoMsg))
    /\ emitted' = {}
    /\ completed' = {}
    /\ Downlink
    /\ UNCHANGED <<env, client, pager, undelivered, claimed, username, activeUsernames, joined, store, sent>>

\* A request of a connected client that arrives before the connection
\* handler has registered its listeners: the event has no listener and no
\* handler runs.
NoListener(s, ev) ==
    /\ conn[s] = "loading"
    /\ "early" \in env.flags
    /\ ev \in env.ops
    /\ undelivered' = undelivered \cup {<<s, ev>>}
    /\ emitted' = {}
    /\ completed' = {}
    /\ Downlink
    /\ UNCHANGED <<env, client, pager, claimed, conn, username, activeUsernames, joined, store,
                   pending, sent>>

\* socket.on('request_global_history')
RequestGlobalHistory(s) ==
    /\ conn[s] = "open"
    /\ "request_global_history" \in env.ops
    /\ CanSend
    /\ pending' = Append(pending, Task(s, "history", "request", NoGroup, NoName, NoMsg))
    /\ emitted' = {}
    /\ completed' = {}
    /\ Downlink
    /\ Uplink(s, "request_global_history", NoGroup)
    /\ UNCHANGED <<env, pager, undelivered, claimed, conn, username, activeUsernames, joined, store, sent>>

\* loadHistoricalMessages after its lrange, and the rest of the connection
\* handler when the load was the initial one
loadHistoricalMessages(ok) ==
    /\ pending # <<>>
    /\ ok \/ "fail" \in env.flags
    /\ Head1.op = "history"
    /\ LET t == Head1
           s == t.sock
           evs == IF ok
                  THEN SocketEmit(s, "historical_messages", NoGroup, NoName, "",
                                  Lrange(chatMessages, 0, -1))
                  ELSE ErrorEmit(s, "failed")
       IN /\ emitted' = evs
          /\ completed' = Done(s, "history", Outs(s, evs))
          /\ conn' = IF t.pc = "initial" /\ conn[s] = "loading"
                     THEN [conn EXCEPT ![s] = "open"]
                     ELSE conn
    /\ pending' = Rest
    /\ Downlink
    /\ UNCHANGED <<env, client, pager, undelivered, claimed, username, activeUsernames, joined, store, sent>>

\* ------------------------------------------------------------- identities
\* The mutant of UsernameTaken: the availability test is skipped.
UsernameTakenNever(name) == FALSE

\* activeUsernames.has(username)
UsernameTaken(name) == name \in activeUsernames

handleUsernameSelection(s, name) ==
    /\ conn[s] = "open"
    /\ "select_username" \in env.ops
    /\ "reclaim" \in env.flags \/ username[s] = NoName
    /\ "bad" \in env.flags \/ validateUsername(name)
    /\ IF UsernameTaken(name)
       THEN /\ emitted' = SocketEmit(s, "username_taken", NoGroup, NoName, "", <<>>)
            /\ UNCHANGED <<activeUsernames, username, claimed>>
       ELSE /\ activeUsernames' = activeUsernames \cup {name}
            /\ claimed' = [claimed EXCEPT ![s] = @ \cup {name}]
            /\ username' = [username EXCEPT ![s] = name]
            /\ emitted' = SocketEmit(s, "username_accepted", NoGroup, name, "", <<>>)
                          \cup BroadcastEmit(s, "user_joined", NoGroup, name, "", <<>>)
    /\ completed' = Done(s, "select_username", Outs(s, emitted'))
    /\ Downlink
    /\ Uplink(s, "select_username", NoGroup)
    /\ UNCHANGED <<env, pager, undelivered, conn, joined, store, pending, sent>>

\* The mutant of handleDisconnection: the identity is also taken out of
\* every room's membership set.
handleDisconnectionLeaving(s) ==
    /\ Live(s)
    /\ "disconnect" \in env.ops
    /\ conn' = [conn EXCEPT ![s] = "closed"]
    /\ joined' = [joined EXCEPT ![s] = {}]
    /\ members' = [g \in GroupIds |-> members[g] \ {username[s]}]
    /\ IF conn[s] = "open" /\ Truthy(username[s])
       THEN /\ activeUsernames' = activeUsernames \ {username[s]}
            /\ emitted' = BroadcastEmit(s, "user_left", NoGroup, username[s], "", <<>>)
       ELSE /\ UNCHANGED activeUsernames
            /\ emitted' = {}
    /\ completed' = {}
    /\ Downlink
    /\ UNCHANGED <<env, client, pager, undelivered, claimed, username, groups, meta, groupMessages,
                   chatMessages, pending, sent>>

\* A disconnect.  The 'disconnect' listener exists only once the connection
\* handler has registered it; socket.io takes the socket out of its rooms.
handleDisconnection(s) ==
    /\ Live(s)
    /\ "disconnect" \in env.ops
    /\ conn' = [conn EXCEPT ![s] = "closed"]
    /\ joined' = [joined EXCEPT ![s] = {}]
    /\ IF conn[s] = "open" /\ Truthy(username[s])
       THEN /\ activeUsernames' = activeUsernames \ {username[s]}
            /\ emitted' = BroadcastEmit(s, "user_left", NoGroup, username[s], "", <<>>)
       ELSE /\ UNCHANGED activeUsernames
            /\ emitted' = {}
    /\ completed' = {}
    /\ Downlink
    /\ UNCHANGED <<env, client, pager, undelivered, claimed, username, store, pending, sent>>

\* ------------------------------------------- how a handler invocation ends
\* The handler ends: these events go out and the invocation is over.
Finish(t, evs) ==
    /\ emitted' = evs
    /\ completed' = Done(t.sock, t.op, t.outs + Outs(t.sock, evs))
    /\ pending' = Rest

\* The catch block of a handler: one error to the requester.
Failed(t) == Finish(t, ErrorEmit(t.sock, "failed"))

\* The handler sends its next command (with argument u) and awaits it.
Await(t, evs, pc, u) ==
    /\ emitted' = evs
    /\ completed' = {}
    /\ pending' = Append(Rest, [t EXCEPT !.pc = pc, !.u = u,
                                         !.outs = @ + Outs(t.sock, evs)])

\* A handler that returns before its first command.
Return(s, op, evs) ==
    /\ emitted' = evs
    /\ completed' = Done(s, op, Outs(s, evs))
    /\ UNCHANGED pending

\* A handler that sends its first command.
Start(t) ==
    /\ CanSend
    /\ emitted' = {}
    /\ completed' = {}
    /\ pending' = Append(pending, t)

\* ------------------------------------------------------------- pagination
\* socket.on('load_more_messages'): loadPaginatedMessages up to its lrange
loadPaginatedMessages(s, offset, limit) ==
    /\ conn[s] = "open"
    /\ "load_more_messages" \in env.ops
    /\ Start([Task(s, "load_more_messages", "lrange", NoGroup, NoName, NoMsg)
                 EXCEPT !.offset = offset, !.limit = limit])
    /\ Downlink
    /\ Uplink(s, "load_more_messages", NoGroup)
    /\ UNCHANGED <<env, pager, undelivered, claimed, conn, username, activeUsernames, joined, store, sent>>

\* handleLoadMoreMessages in the client.  A page asked for at offset 0
\* starts a run; a page asked for at the offset the last page returned, with
\* the run's limit, while the last page said hasMore, continues it; any
\* other page ends it.
NextPages(p, t, e) ==
    IF t.offset = 0
    THEN [loadedMessageCount |-> e.offset, hasMoreMessages |-> e.hasMore,
          limit |-> t.limit, shown |-> e.msgs, first |-> chatMessages]
    ELSE IF /\ p.limit = t.limit /\ p.hasMoreMessages
            /\ p.loadedMessageCount = t.offset
    THEN [p EXCEPT !.loadedMessageCount = e.offset, !.hasMoreMessages = e.hasMore,
                   !.shown = @ \o e.msgs]
    ELSE NoPages

\* A mutant of Page: no page says that there are more.
PageNoMore(s, messages, offset, limit) ==
    [Event(s, "paginated_messages", NoGroup, NoName, "", messages)
       EXCEPT !.hasMore = FALSE,
              !.offset = offset + Len(messages)]

\* A mutant of Page: the offset returned is advanced by the limit.
PageOffsetByLimit(s, messages, offset, limit) ==
    [Event(s, "paginated_messages", NoGroup, NoName, "", messages)
       EXCEPT !.hasMore = (Len(messages) = limit),
              !.offset = offset + limit]

\* The page: what the lrange returned, whether it was full, and the offset
\* of the next one.
Page(s, messages, offset, limit) ==
    [Event(s, "paginated_messages", NoGroup, NoName, "", messages)
       EXCEPT !.hasMore = (Len(messages) = limit),
              !.offset = offset + Len(messages)]

\* loadPaginatedMessages after its lrange
loadPaginatedMessagesReply(ok) ==
    /\ pending # <<>>
    /\ ok \/ "fail" \in env.flags
    /\ Head1.op = "load_more_messages"
    /\ LET t == Head1
           s == t.sock
           messages == Lrange(chatMessages, t.offset, t.offset + t.limit - 1)
           e == Page(s, messages, t.offset, t.limit)
       IN IF ok
          THEN /\ Finish(t, IF Live(s) THEN {e} ELSE {})
               /\ pager' = IF Live(s) THEN [pager EXCEPT ![s] = NextPages(@, t, e)]
                                      ELSE pager
          ELSE /\ Failed(t)
               /\ UNCHANGED pager
    /\ Downlink
    /\ UNCHANGED <<env, client, undelivered, claimed, conn, username, activeUsernames, joined, store, sent>>

\* ---------------------------------------------------------- global lobby
handleMessage(s, text) ==
    /\ conn[s] = "open"
    /\ "message" \in env.ops
    /\ WellFormed(s, R1, text)
    /\ IF ~Truthy(username[s])
       THEN /\ Return(s, "message", ErrorEmit(s, "no_username"))
            /\ UNCHANGED sent
       ELSE /\ sent < MaxSends
            /\ sent' = sent + 1
            /\ Start(Task(s, "message", "lpush", NoGroup, NoName,
                          [username |-> username[s], message |-> text,
                           timestamp |-> sent + 1, groupId |-> NoGroup]))
    /\ Downlink
    /\ Uplink(s, "message", NoGroup)
    /\ UNCHANGED <<env, pager, undelivered, claimed, conn, username, activeUsernames, joined, store>>

\* The mutant of handleMessageReply: the message is broadcast before the
\* outcome of the append is known.
handleMessageReplyEmitFirst(ok) ==
    /\ pending # <<>>
    /\ ok \/ "fail" \in env.flags
    /\ Head1.op = "message"
    /\ LET t == Head1 IN
         /\ chatMessages' = IF ok THEN Lpush(chatMessages, t.msg) ELSE chatMessages
         /\ Finish(t, IoEmit("message", NoGroup, t.msg.username, "", <<t.msg>>)
                      \cup (IF ok THEN {} ELSE ErrorEmit(t.sock, "failed")))
    /\ Downlink
    /\ UNCHANGED <<env, client, pager, undelivered, claimed, conn, username, activeUsernames, joined, groups, meta,
                   members, groupMessages, sent>>

handleMessageReply(ok) ==
    /\ pending # <<>>
    /\ ok \/ "fail" \in env.flags
    /\ Head1.op = "message"
    /\ LET t == Head1 IN
         IF ok
         THEN /\ chatMessages' = Lpush(chatMessages, t.msg)
              /\ Finish(t, IoEmit("message", NoGroup, t.msg.username, "", <<t.msg>>))
         ELSE /\ Failed(t)
              /\ UNCHANGED chatMessages
    /\ Downlink
    /\ UNCHANGED <<env, client, pager, undelivered, claimed, conn, username, activeUsernames, joined, groups, meta, members,
                   groupMessages, sent>>

clearChatHistory(s) ==
    /\ conn[s] = "open"
    /\ "clear_history" \in env.ops
    /\ WellFormed(s, R1, <<"h", "i">>)
    /\ IF ~Truthy(username[s])
       THEN Return(s, "clear_history", ErrorEmit(s, "no_username"))
       ELSE Start(Task(s, "clear_history", "del", NoGroup, NoName, NoMsg))
    /\ Downlink
    /\ Uplink(s, "clear_history", NoGroup)
    /\ UNCHANGED <<env, pager, undelivered, claimed, conn, username, activeUsernames, joined, store, sent>>

clearChatHistoryReply(ok) ==
    /\ pending # <<>>
    /\ ok \/ "fail" \in env.flags
    /\ Head1.op = "clear_history"
    /\ LET t == Head1 IN
         IF ok
         THEN /\ chatMessages' = Del(chatMessages)
              /\ Finish(t, IoEmit("global_history_cleared", NoGroup,
                                  username[t.sock], "", <<>>))
         ELSE /\ Failed(t)
              /\ UNCHANGED chatMessages
    /\ Downlink
    /\ UNCHANGED <<env, client, pager, undelivered, claimed, conn, username, activeUsernames, joined, groups, meta, members,
                   groupMessages, sent>>

\* ------------------------------------------------------------------ rooms
handleCreateGroup(s, data) ==
    /\ conn[s] = "open"
    /\ "create_group" \in env.ops
    /\ WellFormed(s, data, <<"h", "i">>)
    /\ LET groupId == Trim(data) IN
         IF ~Truthy(username[s])
         THEN Return(s, "create_group", ErrorEmit(s, "no_username"))
         ELSE IF ~isValidGroupId(groupId)
         THEN Return(s, "create_group", ErrorEmit(s, "invalid_id"))
         ELSE Start(Task(s, "create_group", "exists", groupId, NoName, NoMsg))
    /\ Downlink
    /\ Uplink(s, "create_group", data)
    /\ UNCHANGED <<env, pager, undelivered, claimed, conn, username, activeUsernames, joined, store, sent>>

handleCreateGroupReply(ok) ==
    /\ pending # <<>>
    /\ ok \/ "fail" \in env.flags
    /\ Head1.op = "create_group"
    /\ LET t == Head1
           s == t.sock
           g == t.gid
       IN
         IF ~ok
         THEN /\ Failed(t)
              /\ UNCHANGED <<groups, meta, members, joined>>
         ELSE CASE t.pc = "exists" ->
                     /\ IF GroupExists(g)
                        THEN Finish(t, ErrorEmit(s, "exists"))
                        ELSE Await(t, {}, "sadd_groups", NoName)
                     /\ UNCHANGED <<groups, meta, members, joined>>
                [] t.pc = "sadd_groups" ->
                     /\ groups' = groups \cup {g}
                     /\ Await(t, {}, "hset_meta", username[s])
                     /\ UNCHANGED <<meta, members, joined>>
                [] t.pc = "hset_meta" ->
                     /\ meta' = [meta EXCEPT ![g] = t.u]
                     /\ Await(t, {}, "sadd_members", username[s])
                     /\ UNCHANGED <<groups, members, joined>>
                [] t.pc = "sadd_members" ->
                     /\ members' = [members EXCEPT ![g] = Sadd(@, t.u)]
                     /\ joined' = IF Live(s)
                                  THEN [joined EXCEPT ![s] = @ \cup {g}]
                                  ELSE joined
                     /\ Finish(t, SocketEmit(s, "group_created", g, username[s], "", <<>>))
                     /\ UNCHANGED <<groups, meta>>
    /\ Downlink
    /\ UNCHANGED <<env, client, pager, undelivered, claimed, conn, username, activeUsernames, groupMessages,
                   chatMessages, sent>>

handleJoinGroup(s, data) ==
    /\ conn[s] = "open"
    /\ "join_group" \in env.ops
    /\ WellFormed(s, data, <<"h", "i">>)
    /\ LET groupId == Trim(data) IN
         IF ~Truthy(username[s])
         THEN Return(s, "join_group", ErrorEmit(s, "no_username"))
         ELSE IF ~isValidGroupId(groupId)
         THEN Return(s, "join_group", ErrorEmit(s, "invalid_id"))
         ELSE Start(Task(s, "join_group", "exists", groupId, NoName, NoMsg))
    /\ Downlink
    /\ Uplink(s, "join_group", data)
    /\ UNCHANGED <<env, pager, undelivered, claimed, conn, username, activeUsernames, joined, store, sent>>

handleJoinGroupReply(ok) ==
    /\ pending # <<>>
    /\ ok \/ "fail" \in env.flags
    /\ Head1.op = "join_group"
    /\ LET t == Head1
           s == t.sock
           g == t.gid
       IN
         IF ~ok
         THEN /\ Failed(t)
              /\ UNCHANGED <<members, joined>>
         ELSE CASE t.pc = "exists" ->
                     /\ IF ~GroupExists(g)
                        THEN Finish(t, ErrorEmit(s, "not_found"))
                        ELSE Await(t, {}, "sadd_members", username[s])
                     /\ UNCHANGED <<members, joined>>
                [] t.pc = "sadd_members" ->
                     /\ members' = [members EXCEPT ![g] = Sadd(@, t.u)]
                     /\ joined' = IF Live(s)
                                  THEN [joined EXCEPT ![s] = @ \cup {g}]
                                  ELSE joined
                     /\ Await(t, {}, "lrange", NoName)
                [] t.pc = "lrange" ->
                     /\ emitted' = {}
                     /\ completed' = {}
                     /\ pending' = Append(Rest, [t EXCEPT !.pc = "hgetall",
                                                          !.res = Lrange(groupMessages[g], 0, -1)])
                     /\ UNCHANGED <<members, joined>>
                [] t.pc = "hgetall" ->
                     /\ Finish(t, SocketEmit(s, "group_joined", g, NoName, "", t.res))
                     /\ UNCHANGED <<members, joined>>
    /\ Downlink
    /\ UNCHANGED <<env, client, pager, undelivered, claimed, conn, username, activeUsernames, groups, meta, groupMessages,
                   chatMessages, sent>>

handleGroupMessage(s, data, text) ==
    /\ conn[s] = "open"
    /\ "group_message" \in env.ops
    /\ WellFormed(s, data, text)
    /\ LET groupId == Trim(data)
           messageText == Trim(text)
       IN
         IF ~Truthy(username[s])
         THEN /\ Return(s, "group_message", ErrorEmit(s, "no_username"))
              /\ UNCHANGED sent
         ELSE IF ~isValidGroupId(groupId) \/ messageText = NoText
         THEN /\ Return(s, "group_message", {})
              /\ UNCHANGED sent
         ELSE /\ sent < MaxSends
              /\ sent' = sent + 1
              /\ Start(Task(s, "group_message", "sismember", groupId, username[s],
                            [username |-> NoName, message |-> messageText,
                             timestamp |-> sent + 1, groupId |-> groupId]))
    /\ Downlink
    /\ Uplink(s, "group_message", data)
    /\ UNCHANGED <<env, pager, undelivered, claimed, conn, username, activeUsernames, joined, store>>

handleGroupMessageReply(ok) ==
    /\ pending # <<>>
    /\ ok \/ "fail" \in env.flags
    /\ Head1.op = "group_message"
    /\ LET t == Head1
           s == t.sock
           g == t.gid
       IN
         IF ~ok
         THEN /\ Failed(t)
              /\ UNCHANGED groupMessages
         ELSE CASE t.pc = "sismember" ->
                     /\ IF t.u \notin members[g]
                        THEN Finish(t, ErrorEmit(s, "not_member"))
                        ELSE /\ emitted' = {}
                             /\ completed' = {}
                             /\ pending' = Append(Rest,
                                  [t EXCEPT !.pc = "lpush",
                                            !.msg.username = username[s]])
                     /\ UNCHANGED groupMessages
                [] t.pc = "lpush" ->
                     /\ groupMessages' = [groupMessages EXCEPT ![g] = Lpush(@, t.msg)]
                     /\ Finish(t, RoomEmit(g, "group_message", t.msg.username, "", <<t.msg>>))
    /\ Downlink
    /\ UNCHANGED <<env, client, pager, undelivered, claimed, conn, username, activeUsernames, joined, groups, meta, members,
                   chatMessages, sent>>

handleClearGroupHistory(s, data) ==
    /\ conn[s] = "open"
    /\ "clear_group_history" \in env.ops
    /\ WellFormed(s, data, <<"h", "i">>)
    /\ LET groupId == Trim(data) IN
         IF ~Truthy(username[s])
         THEN Return(s, "clear_group_history", ErrorEmit(s, "no_username"))
         ELSE IF ~isValidGroupId(groupId)
         THEN Return(s, "clear_group_history", {})
         ELSE Start(Task(s, "clear_group_history", "sismember", groupId,
                         username[s], NoMsg))
    /\ Downlink
    /\ Uplink(s, "clear_group_history", data)
    /\ UNCHANGED <<env, pager, undelivered, claimed, conn, username, activeUsernames, joined, store, sent>>

handleClearGroupHistoryReply(ok) ==
    /\ pending # <<>>
    /\ ok \/ "fail" \in env.flags
    /\ Head1.op = "clear_group_history"
    /\ LET t == Head1
           s == t.sock
           g == t.gid
       IN
         IF ~ok
         THEN /\ Failed(t)
              /\ UNCHANGED groupMessages
         ELSE CASE t.pc = "sismember" ->
                     /\ IF t.u \notin members[g]
                        THEN Finish(t, ErrorEmit(s, "not_member"))
                        ELSE Await(t, {}, "del", NoName)
                     /\ UNCHANGED groupMessages
                [] t.pc = "del" ->
                     /\ groupMessages' = [groupMessages EXCEPT ![g] = Del(@)]
                     /\ Finish(t, RoomEmit(g, "group_history_cleared", username[s], "", <<>>))
    /\ Downlink
    /\ UNCHANGED <<env, client, pager, undelivered, claimed, conn, username, activeUsernames, joined, groups, meta, members,
                   chatMessages, sent>>

handleDeleteGroup(s, data) ==
    /\ conn[s] = "open"
    /\ "delete_group" \in env.ops
    /\ WellFormed(s, data, <<"h", "i">>)
    /\ LET groupId == Trim(data) IN
         IF ~Truthy(username[s])
         THEN Return(s, "delete_group", ErrorEmit(s, "no_username"))
         ELSE IF ~isValidGroupId(groupId)
         THEN Return(s, "delete_group", {})
         ELSE Start(Task(s, "delete_group", "exists", groupId, NoName, NoMsg))
    /\ Downlink
    /\ Uplink(s, "delete_group", data)
    /\ UNCHANGED <<env, pager, undelivered, claimed, conn, username, activeUsernames, joined, store, sent>>

\* The mutant of IsOwner: every requester passes the owner test.
IsOwnerAlways(owner, requester) == TRUE

\* The owner test of handleDeleteGroup on the reply of hgetall
IsOwner(owner, requester) == owner = requester

handleDeleteGroupReply(ok) ==
    /\ pending # <<>>
    /\ ok \/ "fail" \in env.flags
    /\ Head1.op = "delete_group"
    /\ LET t == Head1
           s == t.sock
           g == t.gid
       IN
         IF ~ok
         THEN /\ Failed(t)
              /\ UNCHANGED <<groups, meta, members, groupMessages, joined>>
         ELSE CASE t.pc = "exists" ->
                     /\ IF ~GroupExists(g)
                        THEN Finish(t, ErrorEmit(s, "not_found"))
                        ELSE Await(t, {}, "hgetall", NoName)
                     /\ UNCHANGED <<groups, meta, members, groupMessages, joined>>
                [] t.pc = "hgetall" ->
                     /\ IF ~IsOwner(meta[g], username[s])
                        THEN Finish(t, ErrorEmit(s, "not_owner"))
                        ELSE Await(t, RoomEmit(g, "group_deleted", username[s], "", <<>>),
                                   "del_messages", username[s])
                     /\ UNCHANGED <<groups, meta, members, groupMessages, joined>>
                [] t.pc = "del_messages" ->
                     /\ groupMessages' = [groupMessages EXCEPT ![g] = Del(@)]
                     /\ Await(t, {}, "del_members", t.u)
                     /\ UNCHANGED <<groups, meta, members, joined>>
                [] t.pc = "del_members" ->
                     /\ members' = [members EXCEPT ![g] = {}]
                     /\ Await(t, {}, "del_meta", t.u)
                     /\ UNCHANGED <<groups, meta, groupMessages, joined>>
                [] t.pc = "del_meta" ->
                     /\ meta' = [meta EXCEPT ![g] = NoName]
                     /\ Await(t, {}, "srem_groups", t.u)
                     /\ UNCHANGED <<groups, members, groupMessages, joined>>
                [] t.pc = "srem_groups" ->
                     /\ groups' = groups \ {g}
                     /\ joined' = KickAll(g)
                     /\ Finish(t, {})
                     /\ UNCHANGED <<meta, members, groupMessages>>
    /\ Downlink
    /\ UNCHANGED <<env, client, pager, undelivered, claimed, conn, username, activeUsernames, chatMessages, sent>>

handleLeaveGroup(s, data) ==
    /\ conn[s] = "open"
    /\ "leave_group" \in env.ops
    /\ WellFormed(s, data, <<"h", "i">>)
    /\ LET groupId == Trim(data) IN
         IF ~Truthy(username[s])
         THEN Return(s, "leave_group", ErrorEmit(s, "no_username"))
         ELSE IF ~isValidGroupId(groupId)
         THEN Return(s, "leave_group", {})
         ELSE Start(Task(s, "leave_group", "sismember", groupId, username[s], NoMsg))
    /\ Downlink
    /\ Uplink(s, "leave_group", data)
    /\ UNCHANGED <<env, pager, undelivered, claimed, conn, username, activeUsernames, joined, store, sent>>

handleLeaveGroupReply(ok) ==
    /\ pending # <<>>
    /\ ok \/ "fail" \in env.flags
    /\ Head1.op = "leave_group"
    /\ LET t == Head1
           s == t.sock
           g == t.gid
       IN
         IF ~ok
         THEN /\ Failed(t)
              /\ UNCHANGED <<members, joined>>
         ELSE CASE t.pc = "sismember" ->
                     /\ IF t.u \notin members[g]
                        THEN Finish(t, SocketEmit(s, "left_group", g, NoName, "not_member", <<>>))
                        ELSE Await(t, {}, "srem_members", username[s])
                     /\ UNCHANGED <<members, joined>>
                [] t.pc = "srem_members" ->
                     /\ members' = [members EXCEPT ![g] = Srem(@, t.u)]
                     /\ joined' = [joined EXCEPT ![s] = @ \ {g}]
                     /\ Finish(t, SocketEmit(s, "left_group", g, NoName, "ok", <<>>))
    /\ Downlink
    /\ UNCHANGED <<env, client, pager, undelivered, claimed, conn, username, activeUsernames, groups, meta, groupMessages,
                   chatMessages, sent>>

\* ------------------------------------------------------ the page's script
\* The socket.on listeners of the page: what an event does to the current
\* group, to the displayed list and to the requests sent.
Listener(c, e) ==
    CASE e.ev = "message" ->
           IF c.currentGroupId = NoGroup
           THEN [c EXCEPT !.display = @ \o e.msgs]
           ELSE c
      [] e.ev = "group_created" ->
           [c EXCEPT !.currentGroupId = e.gid, !.display = <<>>]
      [] e.ev = "group_joined" ->
           [c EXCEPT !.currentGroupId = e.gid, !.display = e.msgs]
      [] e.ev = "group_message" ->
           IF e.gid = c.currentGroupId
           THEN [c EXCEPT !.display = @ \o e.msgs]
           ELSE c
      [] e.ev = "group_history_cleared" ->
           IF e.gid = c.currentGroupId THEN [c EXCEPT !.display = <<>>] ELSE c
      [] e.ev = "global_history_cleared" ->
           IF c.currentGroupId = NoGroup THEN [c EXCEPT !.display = <<>>] ELSE c
      [] e.ev = "group_deleted" ->
           IF e.gid = c.currentGroupId
           THEN [c EXCEPT !.currentGroupId = NoGroup, !.display = <<>>]
           ELSE c
      [] e.ev = "left_group" ->
           IF e.info = "ok" /\ c.currentGroupId = NoGroup
           THEN [c EXCEPT !.outbox = Append(@, Request("request_global_history", NoGroup))]
           ELSE c
      [] e.ev = "historical_messages" ->
           [c EXCEPT !.display = e.msgs]
      [] e.ev = "paginated_messages" ->
           [c EXCEPT !.display = Reverse(e.msgs) \o @]
      [] e.ev = "history_cleared" ->
           [c EXCEPT !.display = <<>>]
      [] OTHER -> c

\* The oldest event on the way to client s arrives and its listener runs.
clientOn(s) ==
    /\ "client" \in env.flags
    /\ inbox[s] # <<>>
    /\ client' = [client EXCEPT ![s] = Listener(@, Head(inbox[s]))]
    /\ inbox' = [inbox EXCEPT ![s] = Tail(@)]
    /\ emitted' = {}
    /\ completed' = {}
    /\ UNCHANGED <<env, pager, undelivered, claimed, conn, username, activeUsernames,
                   joined, store, pending, sent>>

\* handleLeaveGroup of the page (the Leave button): the script sends
\* leave_group, is in the lobby at once, and asks for the global history.
clientHandleLeaveGroup(s) ==
    /\ "client" \in env.flags
    /\ conn[s] = "open"
    /\ client[s].currentGroupId # NoGroup
    /\ client' = [client EXCEPT ![s] =
                    [currentGroupId |-> NoGroup,
                     display |-> <<>>,
                     outbox |-> @.outbox \o
                                << Request("leave_group", @.currentGroupId),
                                   Request("request_global_history", NoGroup) >>]]
    /\ emitted' = {}
    /\ completed' = {}
    /\ UNCHANGED <<env, inbox, pager, undelivered, claimed, conn, username,
                   activeUsernames, joined, store, pending, sent>>

Next ==
    \/ \E s \in Sockets : clientOn(s)
    \/ \E s \in Sockets : clientHandleLeaveGroup(s)
    \/ \E s \in Sockets : Connect(s)
    \/ \E s \in Sockets : RequestGlobalHistory(s)
    \/ \E s \in Sockets, ev \in RequestEvents : NoListener(s, ev)
    \/ \E ok \in BOOLEAN : loadHistoricalMessages(ok)
    \/ \E s \in Sockets, offset \in OffsetInputs, limit \in LimitInputs :
          loadPaginatedMessages(s, offset, limit)
    \/ \E ok \in BOOLEAN : loadPaginatedMessagesReply(ok)
    \/ \E s \in Sockets, name \in UsernameInputs : handleUsernameSelection(s, name)
    \/ \E s \in Sockets : handleDisconnection(s)
    \/ \E s \in Sockets, text \in TextInputs : handleMessage(s, text)
    \/ \E ok \in BOOLEAN : handleMessageReply(ok)
    \/ \E s \in Sockets : clearChatHistory(s)
    \/ \E ok \in BOOLEAN : clearChatHistoryReply(ok)
    \/ \E s \in Sockets, data \in GroupIdInputs : handleCreateGroup(s, data)
    \/ \E ok \in BOOLEAN : handleCreateGroupReply(ok)
    \/ \E s \in Sockets, data \in GroupIdInputs : handleJoinGroup(s, data)
    \/ \E ok \in BOOLEAN : handleJoinGroupReply(ok)
    \/ \E s \in Sockets, data \in GroupIdInputs, text \in TextInputs :
          handleGroupMessage(s, data, text)
    \/ \E ok \in BOOLEAN : handleGroupMessageReply(ok)
    \/ \E s \in Sockets, data \in GroupIdInputs : handleClearGroupHistory(s, data)
    \/ \E ok \in BOOLEAN : handleClearGroupHistoryReply(ok)
    \/ \E s \in Sockets, data \in GroupIdInputs : handleDeleteGroup(s, data)
    \/ \E ok \in BOOLEAN : handleDeleteGroupReply(ok)
    \/ \E s \in Sockets, data \in GroupIdInputs : handleLeaveGroup(s, data)
    \/ \E ok \in BOOLEAN : handleLeaveGroupReply(ok)

Spec == Init /\ [][Next]_vars

\* ------------------------------------------------------------------ claims
\* A live session holds the identities that were accepted for it.
Holds(s, name) == Live(s) /\ name \in claimed[s]
Received(s, ev) == \E e \in emitted : e.to = s /\ e.ev = ev

\* C1: in every reachable state no two live sessions hold the same identity
\* string.
C1_UniqueIdentity ==
    \A s, t \in Sockets : \A name \in UsernameInputs :
        (Holds(s, name) /\ Holds(t, name)) => s = t

\* C1 witness: a session holds an identity and another live session has just
\* been refused a claim.
C1_Witness ==
    \E s, t \in Sockets :
        /\ s # t
        /\ Holds(s, Al)
        /\ Live(t) /\ claimed[t] = {}
        /\ Received(t, "username_taken")

\* C2 (as stated): a claim of an identity that no live session holds is
\* accepted, and a claim of an identity another live session holds is
\* answered with username_taken.  The two together give: of two sessions
\* that claim the same unheld identity one after the other, exactly the
\* first is accepted.
C2_ClaimOutcome ==
    [][ \A s \in Sockets, name \in { n \in UsernameInputs : validateUsername(n) } :
          handleUsernameSelection(s, name) =>
            /\ (\A t \in Sockets : ~Holds(t, name))
                  => \E e \in emitted' : e.to = s /\ e.ev = "username_accepted"
            /\ (\E t \in Sockets : t # s /\ Holds(t, name))
                  => \E e \in emitted' : e.to = s /\ e.ev = "username_taken" ]_vars

\* A step in which the handler at the head of `pending` was resumed.
HeadStep ==
    /\ pending # <<>>
    /\ pending' # pending
    /\ \/ pending' = Tail(pending)
       \/ /\ Len(pending') = Len(pending)
          /\ SubSeq(pending', 1, Len(pending) - 1) = Tail(pending)

\* The errors a requester s is sent in the step
ErrorsTo(s) == { e.info : e \in { x \in emitted' : x.to = s /\ x.ev = "error" } }

\* C3 (as stated): a room message whose sender is not a member of the room is
\* never appended to the room's log, also when a leave or a delete of the
\* room is in flight: whenever a room's log grows, the author of the new
\* entry is a member of the room.
C3_NonMemberNeverAppends ==
    [][ \A g \in GroupIds :
          Len(groupMessages'[g]) > Len(groupMessages[g])
            => Head(groupMessages'[g]).username \in members[g] ]_vars

\* C4: delete_group removes a room only for its owner.  When the owner test
\* is reached by a requester whose identity is not the stored owner, the
\* handler ends there with the not-owner error, nothing is broadcast and the
\* store and the socket.io rooms are unchanged; a delete goes past the test
\* only for the identity the room's metadata names as owner; and a room's
\* registry entry, metadata, membership set or log is cleared by a delete
\* only in a step of a handler that is past the test.
DeleteSteps == {"del_messages", "del_members", "del_meta", "srem_groups"}

C5_SingleCreator ==
    [][ \A e \in emitted' : e.ev = "group_created" => meta'[e.gid] = e.who ]_vars

\* C6 (as stated): a room id absent from the registry has no message log, no
\* membership set and no metadata in the store.
C6_DeletedRoomLeavesNothing ==
    \A g \in GroupIds :
        g \notin groups
          => groupMessages[g] = <<>> /\ members[g] = {} /\ meta[g] = NoName

\* C7 (as stated): a live session is sent a room event only if its identity
\* is in the room's membership set when the event is dispatched.
RoomEvents == {"group_message", "group_history_cleared", "group_deleted"}

C7_RoomEventsOnlyToMembers ==
    [][ \A e \in emitted' :
          e.ev \in RoomEvents => username[e.to] \in members[e.gid] ]_vars

\* C8: an accepted room message is delivered to exactly the live sessions
\* that are in the room's live channel (created or joined it on this
\* connection and have not left); a leave acknowledged with status ok leaves
\* the session out of the channel and its identity out of the membership;
\* and a room send of an identity that is not a member ends with the
\* not-a-member error and without an append.
C8_RoomDelivery ==
    [][ /\ \A g \in GroupIds :
             Len(groupMessages'[g]) > Len(groupMessages[g])
               => { e.to : e \in { x \in emitted' : x.ev = "group_message" /\ x.gid = g } }
                    = { s \in Sockets : Live(s) /\ g \in joined[s] }
        /\ \A e \in emitted' :
             e.ev = "group_message"
               => /\ Len(groupMessages'[e.gid]) > Len(groupMessages[e.gid])
                  /\ e.msgs = <<Head(groupMessages'[e.gid])>>
        /\ \A e \in emitted' :
             (e.ev = "left_group" /\ e.info = "ok")
               => e.gid \notin joined'[e.to] /\ username[e.to] \notin members'[e.gid]
        /\ (/\ HeadStep
            /\ Head(pending).op = "group_message"
            /\ Head(pending).pc = "sismember"
            /\ username[Head(pending).sock] \notin members[Head(pending).gid]
            /\ Head(pending).u = username[Head(pending).sock])
           => /\ pending' = Tail(pending)
              /\ UNCHANGED groupMessages
              /\ Live(Head(pending).sock)
                   => ErrorsTo(Head(pending).sock) \in {{"not_member"}, {"failed"}} ]_vars

\* C8 witness: a room message has just been delivered to a session in the
\* room and not to another live, identified session that is not in it.
C8_Witness ==
    \E s, t \in Sockets :
        /\ s # t
        /\ \E e \in emitted : e.ev = "group_message" /\ e.to = s /\ e.gid = R1
        /\ Live(t) /\ Truthy(username[t]) /\ R1 \notin joined[t]
        /\ \A e \in emitted : e.to # t

\* C9: a message event is broadcast only in the step in which its append took
\* effect; when the append of a send fails, nothing is broadcast and the
\* sender is sent the failure notice.
SendOps == {"message", "group_message"}

C9_NoBroadcastWithoutAppend ==
    [][ /\ \A e \in emitted' :
             /\ e.ev = "message" => chatMessages' = e.msgs \o chatMessages
             /\ e.ev = "group_message"
                  => groupMessages'[e.gid] = e.msgs \o groupMessages[e.gid]
        /\ (/\ HeadStep
            /\ Head(pending).op \in SendOps
            /\ Head(pending).pc = "lpush"
            /\ UNCHANGED <<chatMessages, groupMessages>>)
           => /\ \A e \in emitted' : e.ev = "error" /\ e.to = Head(pending).sock
              /\ Live(Head(pending).sock)
                   => ErrorsTo(Head(pending).sock) = {"failed"} ]_vars

\* C9 witness: the append of a global send has just failed: the sender has
\* the failure notice and another live session has nothing.
C9_Witness ==
    \E s, t \in Sockets :
        /\ s # t /\ Live(t)
        /\ completed = Done(s, "message", 1)
        /\ emitted = ErrorEmit(s, "failed")
        /\ chatMessages = <<>>

\* C10 (as stated): every request of a live connection ends with exactly one
\* outcome event sent to the requester.
C10_ExactlyOneOutcome ==
    \A c \in completed : Live(c.sock) => c.outs = 1

\* C11 (as stated): the requests of one connection take effect in the order
\* sent: a group_message to room r that the connection sent after its own
\* create_group or join_group of r (which is past its existence check and
\* still in flight) is evaluated after that request has made the identity a
\* member, so it is not refused as coming from a non-member.
SentBefore(i) ==
    /\ pending[i].sock = Head(pending).sock
    /\ pending[i].gid = Head(pending).gid
    /\ pending[i].op \in {"create_group", "join_group"}
    /\ pending[i].pc # "exists"

C11_OwnRequestsInOrder ==
    [][ (/\ HeadStep
         /\ Head(pending).op = "group_message"
         /\ Head(pending).pc = "sismember"
         /\ \E i \in 2..Len(pending) : SentBefore(i))
        => "not_member" \notin ErrorsTo(Head(pending).sock) ]_vars

\* C12: every accepted message is in its destination's log exactly once and
\* in the order of the appends: a log that changes without becoming empty
\* has gained one entry at its newest end, the entry was not in it before,
\* and the older entries are kept as they were; and the message an event
\* announces is that newest entry.
Entries(log) == { log[i] : i \in 1..Len(log) }

Appended(old, new) ==
    (new # old /\ new # <<>>) => (Tail(new) = old /\ Head(new) \notin Entries(old))

C12_EveryAppendKept ==
    [][ /\ Appended(chatMessages, chatMessages')
        /\ \A g \in GroupIds : Appended(groupMessages[g], groupMessages'[g])
        /\ \A e \in emitted' :
             /\ e.ev = "message" => e.msgs = <<Head(chatMessages')>>
             /\ e.ev = "group_message" => e.msgs = <<Head(groupMessages'[e.gid])>> ]_vars

\* C12 witness: two sessions have sent to the global log; both messages are
\* in it, the later append first, and it has just been announced.
C12_Witness ==
    \E s, t \in Sockets :
        /\ s # t /\ Live(s) /\ Live(t)
        /\ Len(chatMessages) = 2
        /\ chatMessages[1].username = username[t]
        /\ chatMessages[2].username = username[s]
        /\ \E e \in emitted : e.to = s /\ e.ev = "message" /\ e.msgs = <<chatMessages[1]>>

\* C13: a request other than select_username from a connection that has no
\* identity is answered with one error, sent to that connection only, and
\* changes neither the set of claimed identities nor the store (registry,
\* metadata, memberships, logs), nor the socket.io rooms, and sends no
\* command to the store.
Unidentified(s) == username[s] \in {NoName, EmptyName}

RequestOf(s) ==
    \/ \E text \in TextInputs : handleMessage(s, text)
    \/ clearChatHistory(s)
    \/ \E data \in GroupIdInputs : handleCreateGroup(s, data)
    \/ \E data \in GroupIdInputs : handleJoinGroup(s, data)
    \/ \E data \in GroupIdInputs, text \in TextInputs : handleGroupMessage(s, data, text)
    \/ \E data \in GroupIdInputs : handleClearGroupHistory(s, data)
    \/ \E data \in GroupIdInputs : handleDeleteGroup(s, data)
    \/ \E data \in GroupIdInputs : handleLeaveGroup(s, data)

C13_NoIdentityNoEffect ==
    [][ \A s \in Sockets :
          (Unidentified(s) /\ RequestOf(s))
            => /\ emitted' = { Event(s, "error", NoGroup, NoName, "no_username", <<>>) }
               /\ UNCHANGED <<activeUsernames, username, joined, groups, meta, members,
                              groupMessages, chatMessages, pending>> ]_vars

\* C13 witness: a connection without identity has just been refused a room
\* send to an existing room; another live connection has received nothing.
C13_Witness ==
    \E s, t \in Sockets :
        /\ s # t /\ Live(t)
        /\ username[s] = NoName
        /\ R1 \in groups
        /\ completed = Done(s, "group_message", 1)
        /\ emitted = { Event(s, "error", NoGroup, NoName, "no_username", <<>>) }

\* The names the client's validateUsername lets through
ValidNames == { n \in UsernameInputs : validateUsername(n) }

\* C14 (as stated, for valid names): once a claim of a session has been
\* accepted, a later select_username of that session leaves its identity and
\* the set of claimed identities unchanged.
C14_IdentitySetOnce ==
    [][ \A s \in Sockets, name \in ValidNames :
          (claimed[s] \cap ValidNames # {} /\ handleUsernameSelection(s, name))
            => UNCHANGED <<username, activeUsernames>> ]_vars

\* C15 (as stated, for valid names): when a session disconnects, every
\* identity that was accepted for it is out of the set of claimed
\* identities; the disconnect of a session without identity leaves the set
\* unchanged.
C15_DisconnectReleases ==
    [][ \A s \in Sockets :
          handleDisconnection(s)
            => /\ \A name \in claimed[s] \cap ValidNames : name \notin activeUsernames'
               /\ claimed[s] = {} => UNCHANGED activeUsernames ]_vars

\* C16 (as stated, for valid names): every entry of activeUsernames is the
\* current identity of exactly one live session.
C16_ClaimedSetIsLive ==
    \A name \in activeUsernames \cap ValidNames :
        Cardinality({ s \in Sockets : Live(s) /\ username[s] = name }) = 1

\* C17 (as stated): when group_created is emitted for room r, r is in the
\* registry, its stored owner is the creator's identity, its membership set
\* is exactly {creator}, its log is empty and the creator's session is in
\* r's socket.io room.
C17_CreatedRoomState ==
    [][ \A e \in emitted' :
          e.ev = "group_created"
            => /\ e.gid \in groups'
               /\ meta'[e.gid] = username[e.to]
               /\ members'[e.gid] = {username[e.to]}
               /\ groupMessages'[e.gid] = <<>>
               /\ e.gid \in joined'[e.to] ]_vars

\* C18: the last step of a delete_group leaves the room out of the
\* registry; a join_group whose existence check then finds the room absent
\* ends with the room-does-not-exist error and adds no membership and no
\* channel subscription; a create_group whose existence check finds the room
\* absent is not refused, and when it completes with nothing else in flight
\* the requester is sent group_created and is the stored owner.
HeadAt(op, pc) ==
    /\ HeadStep
    /\ Head(pending).op = op
    /\ Head(pending).pc = pc

C18_AfterDelete ==
    [][ /\ (HeadAt("delete_group", "srem_groups") /\ ErrorsTo(Head(pending).sock) = {})
           => Head(pending).gid \notin groups'
        /\ (HeadAt("join_group", "exists") /\ Head(pending).gid \notin groups)
           => /\ pending' = Tail(pending)
              /\ UNCHANGED <<groups, meta, members, groupMessages, joined>>
              /\ \A e \in emitted' : e.ev = "error" /\ e.to = Head(pending).sock
              /\ Live(Head(pending).sock)
                   => ErrorsTo(Head(pending).sock) \in {{"not_found"}, {"failed"}}
        /\ (HeadAt("create_group", "exists") /\ Head(pending).gid \notin groups)
           => \/ pending' # Tail(pending)
              \/ ErrorsTo(Head(pending).sock) \subseteq {"failed"}
        /\ (/\ HeadAt("create_group", "sadd_members")
            /\ Len(pending) = 1
            /\ Live(Head(pending).sock)
            /\ ErrorsTo(Head(pending).sock) = {})
           => /\ \E e \in emitted' : /\ e.ev = "group_created"
                                      /\ e.to = Head(pending).sock
                                      /\ e.gid = Head(pending).gid
              /\ meta'[Head(pending).gid] = username[Head(pending).sock] ]_vars

\* C18 witness: the owner's delete of r1 has just completed (the owner was
\* sent group_deleted in an earlier step, the last step sent nothing),
\* nothing of r1 is left, and a join_group of r1 by another session is the
\* next request the store answers.
C18_Witness ==
    \E s, t \in Sockets :
        /\ s # t /\ Live(s) /\ Live(t)
        /\ completed = Done(s, "delete_group", 1)
        /\ emitted = {}
        /\ R1 \notin groups
        /\ members[R1] = {} /\ meta[R1] = NoName /\ groupMessages[R1] = <<>>
        /\ Len(pending) = 1
        /\ pending[1].sock = t
        /\ pending[1].op = "join_group"
        /\ pending[1].pc = "exists"
        /\ pending[1].gid = R1

C20_OthersToldOnlyOnSuccess ==
    [][ (HeadStep /\ ErrorsTo(Head(pending).sock) = {"failed"})
          => /\ \A e \in emitted' : e.to = Head(pending).sock
             /\ (Head(pending).op = "delete_group" /\ Head(pending).pc = "del_messages")
                  => ~ \E e \in emitted : /\ e.ev = "group_deleted"
                                          /\ e.gid = Head(pending).gid
                                          /\ e.who = Head(pending).u
                                          /\ e.to # Head(pending).sock ]_vars

\* C21: a join_group whose existence check finds the room absent ends with
\* the not-found error and changes neither the store nor any channel; one
\* that finds it present goes on, its next command adds the requester's
\* identity to the room's membership set (a set: an identity already in it
\* leaves it as it was) and subscribes the session to the room's channel,
\* its read takes the room's whole log, and group_joined carries what was
\* read.  A store failure ends the request with an error instead.
C21_Join ==
    [][ LET t == Head(pending)
            s == t.sock
            g == t.gid
        IN
        /\ (HeadAt("join_group", "exists") /\ g \notin groups)
           => /\ pending' = Tail(pending)
              /\ UNCHANGED <<store, joined>>
              /\ Live(s) => ErrorsTo(s) \in {{"not_found"}, {"failed"}}
        /\ (HeadAt("join_group", "exists") /\ g \in groups)
           => /\ UNCHANGED <<store, joined>>
              /\ \/ pending' # Tail(pending)
                 \/ ~Live(s)
                 \/ ErrorsTo(s) = {"failed"}
        /\ (HeadAt("join_group", "sadd_members") /\ pending' # Tail(pending))
           => /\ t.u \in claimed[s]
              /\ members' = [members EXCEPT ![g] = members[g] \cup {t.u}]
              /\ t.u \in members[g] => members' = members
              /\ Live(s) => joined' = [joined EXCEPT ![s] = joined[s] \cup {g}]
              /\ UNCHANGED <<groups, meta, groupMessages, chatMessages>>
        /\ (HeadAt("join_group", "lrange") /\ pending' # Tail(pending))
           => /\ pending'[Len(pending')].res = groupMessages[g]
              /\ UNCHANGED <<store, joined>>
        /\ HeadAt("join_group", "hgetall")
           => /\ pending' = Tail(pending)
              /\ UNCHANGED <<store, joined>>
              /\ Live(s)
                   => \/ ErrorsTo(s) = {"failed"} /\ Outs(s, emitted') = 1
                      \/ emitted' = { Event(s, "group_joined", g, NoName, "", t.res) }
      ]_vars

\* C21 witness: a session that did not create r1 has just been sent
\* group_joined with r1's log of one message, and both identities are
\* members.
C21_Witness ==
    \E s \in Sockets :
        /\ completed = Done(s, "join_group", 1)
        /\ \E e \in emitted : /\ e.ev = "group_joined" /\ e.to = s /\ e.gid = R1
                               /\ Len(e.msgs) = 1
                               /\ e.msgs = groupMessages[R1]
        /\ meta[R1] # username[s]
        /\ members[R1] = {Al, Bo}
        /\ R1 \in joined[s]

\* C22 (as stated): the messages of group_joined, and of the full-history
\* read of the global log, are listed oldest first, that is in the order
\* they were appended: the stored list, which has the newest entry at its
\* head, reversed.
C22_OldestFirst ==
    [][ \A e \in emitted' :
          /\ e.ev = "historical_messages" => e.msgs = Reverse(chatMessages)
          /\ e.ev = "group_joined" => e.msgs = Reverse(Head(pending).res) ]_vars

\* C23: a leave_group whose membership check finds the requester's identity
\* in the room's membership set goes on, and its next command removes
\* exactly that identity from the set, takes the session out of the room's
\* channel and sends the requester left_group with status ok; one whose
\* check does not find it sends left_group with status not_member, no
\* error, and changes neither the store nor any channel.  A store failure
\* ends the request with an error instead.
C23_Leave ==
    [][ LET t == Head(pending)
            s == t.sock
            g == t.gid
        IN
        /\ HeadAt("leave_group", "sismember")
           => /\ t.u \in claimed[s]
              /\ UNCHANGED <<store, joined>>
              /\ (t.u \in members[g] /\ Live(s))
                   => (pending' # Tail(pending) \/ ErrorsTo(s) = {"failed"})
              /\ (t.u \notin members[g])
                   => /\ pending' = Tail(pending)
                      /\ Live(s) =>
                           \/ ErrorsTo(s) = {"failed"} /\ Outs(s, emitted') = 1
                           \/ emitted' = { Event(s, "left_group", g, NoName,
                                                  "not_member", <<>>) }
        /\ HeadAt("leave_group", "srem_members")
           => /\ pending' = Tail(pending)
              /\ UNCHANGED <<groups, meta, groupMessages, chatMessages>>
              /\ \/ /\ Live(s) => ErrorsTo(s) = {"failed"} /\ Outs(s, emitted') = 1
                    /\ UNCHANGED <<members, joined>>
                 \/ /\ members' = [members EXCEPT ![g] = members[g] \ {t.u}]
                    /\ joined' = [joined EXCEPT ![s] = joined[s] \ {g}]
                    /\ t.u \notin members'[g]
                    /\ Live(s) => emitted' = { Event(s, "left_group", g, NoName,
                                                      "ok", <<>>) }
      ]_vars

\* C23 witness: a member of r1 that is not the only one has just been sent
\* left_group with status ok; its identity is out of the membership set and
\* the session out of the channel, the other member and the room remain.
C23_Witness ==
    \E s \in Sockets :
        /\ completed = Done(s, "leave_group", 1)
        /\ emitted = { Event(s, "left_group", R1, NoName, "ok", <<>>) }
        /\ Truthy(username[s])
        /\ username[s] \notin members[R1]
        /\ members[R1] # {}
        /\ R1 \notin joined[s]
        /\ R1 \in groups

\* C24 (as stated): whenever a clear_group_history empties a room's log, the
\* requester's identity is then a member of the room, and registry,
\* metadata and membership sets are unchanged by the step; a
\* clear_group_history whose membership check does not find the identity
\* ends with the not-a-member error and changes nothing in the store.
C24_ClearRequiresMember ==
    [][ LET t == Head(pending)
            s == t.sock
            g == t.gid
        IN
        /\ (HeadAt("clear_group_history", "del") /\ groupMessages' # groupMessages)
           => /\ username[s] \in members[g]
              /\ groupMessages' = [groupMessages EXCEPT ![g] = <<>>]
              /\ UNCHANGED <<groups, meta, members, chatMessages>>
        /\ (HeadAt("clear_group_history", "sismember") /\ t.u \notin members[g])
           => /\ pending' = Tail(pending)
              /\ UNCHANGED store
              /\ Live(s) => ErrorsTo(s) \in {{"not_member"}, {"failed"}}
      ]_vars

\* C25: the step of an accepted send (the one that broadcasts message m)
\* leaves m in the destination's log, the global one or the room's; the step
\* of an accepted clear leaves the destination's log empty; and a
\* full-history read returns every entry the log then holds, no other and
\* none twice: historical_messages for the global log, and for a room the
\* read of join_group, which group_joined (C21) carries.
SameEntries(read, log) ==
    /\ Len(read) = Len(log)
    /\ Entries(read) = Entries(log)

C25_RoundTrip ==
    [][ /\ \A e \in emitted' :
             /\ e.ev = "message" => e.msgs[1] \in Entries(chatMessages')
             /\ e.ev = "group_message" => e.msgs[1] \in Entries(groupMessages'[e.gid])
             /\ e.ev = "global_history_cleared" => chatMessages' = <<>>
             /\ e.ev = "group_history_cleared" => groupMessages'[e.gid] = <<>>
             /\ e.ev = "historical_messages"
                  => /\ SameEntries(e.msgs, chatMessages)
                     /\ chatMessages' = chatMessages
        /\ (HeadAt("join_group", "lrange") /\ pending' # Tail(pending))
             => SameEntries(pending'[Len(pending')].res,
                            groupMessages[Head(pending).gid])
      ]_vars

\* C25 witness: a session that holds an identity asked for the global
\* history and has just been sent both messages that were appended.
C25_Witness ==
    \E s \in Sockets :
        /\ Truthy(username[s])
        /\ completed = Done(s, "history", 1)
        /\ \E e \in emitted : /\ e.ev = "historical_messages" /\ e.to = s
                               /\ Len(e.msgs) = MaxMsgs
                               /\ SameEntries(e.msgs, chatMessages)

\* C26: a client pages through the global log with a limit L > 0: the first
\* request at offset 0, each next one at the offset the last page returned,
\* as long as the last page said hasMore.  While the log is as it was when
\* the first page was read, the pages received so far, one after the other,
\* are the first entries of what the full-history read returns, each page
\* that says hasMore has advanced the offset, and once a page says hasMore =
\* false the pages together are exactly what the full-history read returns.
IsPrefix(a, b) == Len(a) <= Len(b) /\ a = SubSeq(b, 1, Len(a))

C26_PagesMakeHistory ==
    [][ \A s \in Sockets :
          (/\ pager'[s] # pager[s]
           /\ pager'[s].limit > 0
           /\ pager'[s].first = chatMessages)
            => /\ chatMessages' = chatMessages
               /\ IsPrefix(pager'[s].shown, Lrange(chatMessages, 0, -1))
               /\ pager'[s].loadedMessageCount = Len(pager'[s].shown)
               /\ pager'[s].hasMoreMessages
                    => \/ pager[s].limit = 0
                       \/ Head(pending).offset = 0
                       \/ pager'[s].loadedMessageCount > pager[s].loadedMessageCount
               /\ ~pager'[s].hasMoreMessages
                    => pager'[s].shown = Lrange(chatMessages, 0, -1)
      ]_vars

\* C26 witness: with a log of two messages a client has paged with limit 1:
\* two full pages and an empty last one, which said hasMore = false.
C26_Witness ==
    \E s \in Sockets :
        /\ Len(chatMessages) = 2
        /\ pager[s].limit = 1
        /\ pager[s].first = chatMessages
        /\ pager[s].shown = chatMessages
        /\ ~pager[s].hasMoreMessages
        /\ \E e \in emitted : /\ e.ev = "paginated_messages" /\ e.to = s
                               /\ e.msgs = <<>> /\ ~e.hasMore /\ e.offset = 2

\* C27: the reply to load_more_messages with offset >= 0 and limit > 0 is
\* one paginated_messages event to the requester (or, when the store fails,
\* one error).  For a log of n entries it carries the min(limit, n - offset)
\* entries (none when offset >= n) at the positions offset, offset + 1, ...
\* counted from the newest entry as position 0, hasMore says whether their
\* number is the limit, the offset returned is the requested one plus their
\* number; and the store is unchanged.
C27_Page ==
    [][ HeadAt("load_more_messages", "lrange")
          => LET t == Head(pending)
                 s == t.sock
                 n == Len(chatMessages)
                 rest == IF t.offset >= n THEN 0 ELSE n - t.offset
                 k == IF rest < t.limit THEN rest ELSE t.limit
             IN /\ t.offset >= 0 /\ t.limit > 0
                /\ UNCHANGED <<store, joined>>
                /\ pending' = Tail(pending)
                /\ \A e \in emitted' :
                      /\ e.to = s
                      /\ e.ev \in {"paginated_messages", "error"}
                      /\ e.ev = "paginated_messages"
                           => /\ Len(e.msgs) = k
                              /\ k <= t.limit
                              /\ \A i \in 1..k : e.msgs[i] = chatMessages[t.offset + i]
                              /\ e.hasMore = (k = t.limit)
                              /\ e.offset = t.offset + k
                /\ Live(s) => Cardinality(emitted') = 1
      ]_vars

\* C27 witness: with a log of two messages a page asked for at offset 1 with
\* limit 1 has just been returned: it carries the older message, says
\* hasMore and returns offset 2.
C27_Witness ==
    \E s \in Sockets :
        /\ Len(chatMessages) = 2
        /\ completed = Done(s, "load_more_messages", 1)
        /\ emitted = { [Event(s, "paginated_messages", NoGroup, NoName, "",
                              <<chatMessages[2]>>)
                          EXCEPT !.hasMore = TRUE, !.offset = 2] }

\* C28: a step changes a log in one of two ways only.  Either it is the
\* append of a send to that destination, and the log is as before with the
\* sent message added at the newest end; or it is the del of a
\* clear_history (global log), whose requester holds an identity, or of a
\* clear_group_history or delete_group of that room, and the log is empty.
\* A send appends to an emptied log as to any other.
C28_LogChanges ==
    [][ LET t == Head(pending) IN
        /\ \/ chatMessages' = chatMessages
           \/ /\ HeadAt("message", "lpush")
              /\ chatMessages' # <<>>
              /\ Tail(chatMessages') = chatMessages
              /\ Head(chatMessages') = t.msg
           \/ /\ HeadAt("clear_history", "del")
              /\ chatMessages' = <<>>
              /\ \E n \in claimed[t.sock] : Truthy(n)
        /\ \A g \in GroupIds :
             \/ groupMessages'[g] = groupMessages[g]
             \/ /\ HeadAt("group_message", "lpush")
                /\ t.gid = g
                /\ groupMessages'[g] # <<>>
                /\ Tail(groupMessages'[g]) = groupMessages[g]
                /\ Head(groupMessages'[g]) = t.msg
             \/ /\ HeadAt("clear_group_history", "del") \/ HeadAt("delete_group", "del_messages")
                /\ t.gid = g
                /\ groupMessages'[g] = <<>>
      ]_vars

\* C28 witness: in a run where no store command fails and requests are sent
\* one at a time, the global log holds the second message sent and nothing
\* else: the first was appended and then removed by a clear_history, and the
\* second has just been appended to the emptied log and broadcast.
C28_Witness ==
    /\ "fail" \notin env.flags /\ env.par = 1
    /\ env.ops \cap {"group_message", "disconnect"} = {}
    /\ sent = 2
    /\ Len(chatMessages) = 1
    /\ chatMessages[1].timestamp = 2
    /\ \E e \in emitted : e.ev = "message" /\ e.msgs = chatMessages

\* C29: the step in which a session disconnects leaves registry, metadata,
\* membership sets and logs unchanged.  A room send is accepted on the
\* membership of the sender's identity alone, whether or not the sending
\* session is in the room's channel: when its membership check finds the
\* identity in the set it goes on to the append, and the append adds the
\* message to the room's log.  So a later connection that claims the
\* identity of a disconnected member sends to the member's rooms without
\* joining them.
C29_MembershipOutlivesSession ==
    [][ LET t == Head(pending)
            s == t.sock
            g == t.gid
        IN
        /\ (\E x \in Sockets : Live(x) /\ conn'[x] = "closed") => UNCHANGED store
        /\ (HeadAt("group_message", "sismember") /\ t.u \in members[g])
           => \/ /\ Len(pending') = Len(pending)
                 /\ pending'[Len(pending')].pc = "lpush"
                 /\ pending'[Len(pending')].sock = s
              \/ Live(s) /\ ErrorsTo(s) = {"failed"}
              \/ ~Live(s) /\ pending' = Tail(pending)
        /\ HeadAt("group_message", "lpush")
           => \/ groupMessages' = [groupMessages EXCEPT ![g] = <<t.msg>> \o @]
              \/ Live(s) /\ ErrorsTo(s) = {"failed"} /\ UNCHANGED groupMessages
              \/ ~Live(s) /\ UNCHANGED groupMessages
      ]_vars

\* C29 witness: the session that created r1 as 'al' has disconnected; a
\* later connection holds 'al', is not in r1's channel, and its
\* group_message to r1 has just been appended (the request ended without an
\* event to the sender, who is not in the channel).
C29_Witness ==
    \E s, x \in Sockets :
        /\ s # x
        /\ conn[s] = "closed" /\ username[s] = Al
        /\ conn[x] = "open" /\ username[x] = Al
        /\ meta[R1] = Al /\ Al \in members[R1]
        /\ R1 \notin joined[x]
        /\ "bad" \notin env.flags
        /\ completed = Done(x, "group_message", 0)
        /\ groupMessages[R1] # <<>>
        /\ Head(groupMessages[R1]).username = Al
        /\ Head(groupMessages[R1]).timestamp = sent

\* C30: in the step in which a session disconnects, if the session holds an
\* identity (socket.username is set) exactly one user_left event carrying
\* that identity goes to each other live session and none to the
\* disconnecting one, and nothing else is emitted; if it holds none, nothing
\* is emitted.
C30_DepartureAnnounced ==
    [][ \A s \in Sockets :
          (Live(s) /\ conn'[s] = "closed")
            => IF Truthy(username[s])
               THEN emitted' = { Event(x, "user_left", NoGroup, username[s], "", <<>>) :
                                   x \in { y \in Sockets : Live(y) /\ y # s } }
               ELSE emitted' = {}
      ]_vars

\* C30 witness: 'al' has just disconnected while two other sessions were
\* live, and each of the two got user_left carrying 'al'.
C30_Witness ==
    \E s \in Sockets :
        /\ conn[s] = "closed" /\ username[s] = Al
        /\ Cardinality({ x \in Sockets : Live(x) }) = 2
        /\ emitted = { Event(x, "user_left", NoGroup, Al, "", <<>>) :
                         x \in { y \in Sockets : Live(y) } }

\* C31: a request that fails on a validation, a conflict, an authorisation
\* or a lookup ends in the step that finds the failure, and every event of
\* that step goes to the requesting connection.  The failures are: a
\* request refused before its first store command (no identity, invalid
\* group id, blank text); a select_username of a name that is taken; a
\* create_group of a room in the registry; a join_group or delete_group of a
\* room that is not; a delete_group by another than the stored owner; a
\* group_message, clear_group_history or leave_group of an identity that is
\* not in the membership set.
Refused ==
    LET t == Head(pending) IN
    /\ HeadStep
    /\ \/ t.op = "create_group" /\ t.pc = "exists" /\ t.gid \in groups
       \/ t.op \in {"join_group", "delete_group"} /\ t.pc = "exists" /\ t.gid \notin groups
       \/ t.op = "delete_group" /\ t.pc = "hgetall" /\ meta[t.gid] # username[t.sock]
       \/ /\ t.op \in {"group_message", "clear_group_history", "leave_group"}
          /\ t.pc = "sismember"
          /\ t.u \notin members[t.gid]

C31_FailuresStayLocal ==
    [][ /\ \A c \in completed' :
             (/\ pending' = pending
              /\ c.op = "select_username" => activeUsernames' = activeUsernames)
               => \A e \in emitted' : e.to = c.sock
        /\ Refused
             => /\ pending' = Tail(pending)
                /\ \A e \in emitted' : e.to = Head(pending).sock
      ]_vars

\* C31 witness: a delete_group of r1 by a session that is not its owner has
\* just been refused, with one error to the requester, while the owner's
\* session is live and in r1's channel.
C31_Witness ==
    \E s, x \in Sockets :
        /\ s # x
        /\ completed = Done(s, "delete_group", 1)
        /\ emitted = ErrorEmit(s, "not_owner")
        /\ Live(s) /\ Live(x)
        /\ Truthy(meta[R1]) /\ meta[R1] = username[x] /\ meta[R1] # username[s]
        /\ R1 \in joined[x]
        /\ R1 \in groups

\* C32: a create_group, join_group, leave_group, group_message,
\* clear_group_history or delete_group whose group id, trimmed, is not 2 to
\* 50 characters out of letters, digits, underscore and hyphen ends in the
\* step that receives it: no store command is sent, registry, metadata,
\* membership sets, logs and channels are unchanged, and no event goes to
\* another connection than the requester's.
IdRule(id) ==
    /\ Len(id) >= 2
    /\ Len(id) <= 50
    /\ \A i \in 1..Len(id) : id[i] \in IdChars

InvalidIds == { d \in GroupIdInputs : ~IdRule(Trim(d)) }

RoomRequest(op, s, data) ==
    \/ op = "create_group" /\ handleCreateGroup(s, data)
    \/ op = "join_group" /\ handleJoinGroup(s, data)
    \/ op = "leave_group" /\ handleLeaveGroup(s, data)
    \/ op = "group_message" /\ \E text \in TextInputs : handleGroupMessage(s, data, text)
    \/ op = "clear_group_history" /\ handleClearGroupHistory(s, data)
    \/ op = "delete_group" /\ handleDeleteGroup(s, data)

\* The requests that can have arrived in a step: a handler ended without a
\* reply of the store being consumed, or one more command is awaited.
Arrivals ==
    IF pending' = pending
    THEN { <<c.op, c.sock>> : c \in completed' }
    ELSE IF Len(pending') = Len(pending) + 1
    THEN { <<pending'[Len(pending')].op, pending'[Len(pending')].sock>> }
    ELSE {}

C32_InvalidIdRejected ==
    [][ \A a \in Arrivals, data \in InvalidIds :
          RoomRequest(a[1], a[2], data)
            => /\ UNCHANGED <<store, joined, pending, sent>>
               /\ completed' # {}
               /\ \A e \in emitted' : e.to = a[2] /\ e.ev = "error"
      ]_vars

\* C32 witness: room r1 exists with a member and a message, and a request
\* of the member's session has just ended before any store command with the
\* invalid-id error (a create_group or join_group with a malformed id).
C32_Witness ==
    \E s \in Sockets :
        /\ R1 \in groups /\ R1 \in joined[s]
        /\ username[s] \in members[R1]
        /\ groupMessages[R1] # <<>>
        /\ pending = <<>>
        /\ emitted = ErrorEmit(s, "invalid_id")
        /\ \E c \in completed : c.sock = s /\ c.outs = 1

\* C33 (as stated): a name that is not lexically valid (after trimming: 2 to
\* 20 characters out of letters, digits, underscore and hyphen) is never
\* accepted: it is never in the set of claimed identities, never a
\* session's identity, and a claim of it is never answered by
\* username_accepted or username_taken.
C33_InvalidNameNeverAccepted ==
    /\ \A name \in activeUsernames : validateUsername(name)
    /\ \A s \in Sockets : \A name \in claimed[s] : validateUsername(name)
    /\ \A e \in emitted : e.ev = "username_accepted" => validateUsername(e.who)

\* C34 (as stated): when a store command of a create_group that is past its
\* existence check fails, the requester is sent the failure and, the request
\* being over, the room is not in the registry.
C34_CreateAllOrNothing ==
    [][ LET t == Head(pending) IN
        (/\ HeadStep
         /\ t.op = "create_group"
         /\ t.pc \in {"sadd_groups", "hset_meta", "sadd_members"}
         /\ Live(t.sock)
         /\ "failed" \in ErrorsTo(t.sock))
          => /\ pending' = Tail(pending)
             /\ t.gid \notin groups'
      ]_vars

\* C35: a message is broadcast in the step that appends it, and that step
\* appends and broadcasts nothing else: every message or group_message event
\* of a step carries one and the same message, for one destination, and the
\* destination's log after the step is that message put before the log as it
\* was.  So the events a session receives for one destination come in the
\* order of the appends, whatever the interleaving of the senders.
C35_BroadcastInLogOrder ==
    [][ \A e \in emitted' :
          e.ev \in {"message", "group_message"}
            => /\ Len(e.msgs) = 1
               /\ LogOf(e.gid, chatMessages', groupMessages')
                     = e.msgs \o LogOf(e.gid, chatMessages, groupMessages)
               /\ (e.ev = "message") = (e.gid = NoGroup)
               /\ \A f \in emitted' : /\ f.ev = e.ev
                                       /\ f.gid = e.gid
                                       /\ f.msgs = e.msgs
      ]_vars

\* C35 witness: two members of r1 have sent to it; the second append has
\* just been broadcast to the author of the first, who is in the channel.
C35_Witness ==
    \E x \in Sockets :
        /\ Live(x) /\ R1 \in joined[x]
        /\ Len(groupMessages[R1]) = 2
        /\ groupMessages[R1][2].username = username[x]
        /\ groupMessages[R1][1].username # username[x]
        /\ groupMessages[R1][2].timestamp < groupMessages[R1][1].timestamp
        /\ \E e \in emitted : /\ e.to = x /\ e.ev = "group_message"
                               /\ e.msgs = <<groupMessages[R1][1]>>

\* C36 (as stated): every request a connected client sends is dispatched to
\* its handler: none arrives without a listener.
C36_EveryRequestDispatched ==
    undelivered = {}

\* C37 (as stated): while the global log has only grown since the first
\* page of a client's run of pages was read (the log of then is the older
\* end of the log of now), the pages received so far contain no message
\* twice, and once a page has said hasMore = false they contain every
\* message that was in the log when the first page was read.
IsSuffix(a, b) ==
    /\ Len(a) <= Len(b)
    /\ a = SubSeq(b, Len(b) - Len(a) + 1, Len(b))

NoDuplicates(seq) ==
    \A i, j \in 1..Len(seq) : i # j => seq[i] # seq[j]

C37_PagesUnderSends ==
    \A s \in Sockets :
        (pager[s].limit > 0 /\ IsSuffix(pager[s].first, chatMessages))
          => /\ NoDuplicates(pager[s].shown)
             /\ ~pager[s].hasMoreMessages
                  => Entries(pager[s].first) \subseteq Entries(pager[s].shown)

\* C38 (as stated): while a client's current destination is a group, its
\* displayed list holds only messages of that group.
C38_GroupViewShowsGroupOnly ==
    \A s \in Sockets :
        client[s].currentGroupId # NoGroup
          => \A i \in 1..Len(client[s].display) :
                client[s].display[i].groupId = client[s].currentGroupId

====
